---------------------------- MODULE Spec2Model ----------------------------
(***************************************************************************)
(* Model of two React components of the manager package:                   *)
(*                                                                         *)
(*   - LongviewGauge (CPU gauge): its state, the effect that issues a      *)
(*     fetch on every change of lastUpdated, the .then/.catch handlers,    *)
(*     what it renders, and its three utilities sumCPUUsage,               *)
(*     normalizeValue and innerText;                                       *)
(*   - DiskDrawer: the submit protocol of submitForm.                      *)
(*                                                                         *)
(* JavaScript values are tagged records: [t |-> "undefined"],              *)
(* [t |-> "null"], [t |-> "number", v |-> n], [t |-> "object", m |-> f]    *)
(* (f a function on the object's keys), [t |-> "array", s |-> seq].        *)
(* Sample values and raw totals are fixed-point numbers: the integer n     *)
(* stands for n / Unit, so that totals such as 50.5 exist.  Percentages    *)
(* (the results of normalizeValue) are plain integers.                     *)
(***************************************************************************)
EXTENDS Integers, Sequences, FiniteSets, TLC

VARIABLES
    args, ret,              \* a call of one of the utilities: arguments, result
    loading, error,         \* LongviewGauge: useState, lines 19-20
    usedCPU, numCores,      \* LongviewGauge: useState, lines 22-23
    lastUpdated,            \* LongviewGauge: the prop the effect depends on
    requests,               \* fetches in flight, each with its closure's usedCPU
    pc, cur,                \* the handler that is running, and its fetch
    status, errors,         \* DiskDrawer: formik.status, formik.errors
    isSubmitting,           \* DiskDrawer: formik.isSubmitting
    open,                   \* DiskDrawer: the open prop
    pending,                \* DiskDrawer: onSubmit promises not yet settled
    calls                   \* DiskDrawer: how often onSubmit / onClose were called

utilVars   == <<args, ret>>
gaugeVars  == <<loading, error, usedCPU, numCores, lastUpdated, requests, pc, cur>>
drawerVars == <<status, errors, isSubmitting, open, pending, calls>>
vars       == <<args, ret, loading, error, usedCPU, numCores, lastUpdated,
                requests, pc, cur, status, errors, isSubmitting, open,
                pending, calls>>

---------------------------------------------------------------------------
(* Bounds *)

\* Unit == 2 * HalfUnit is the denominator of the fixed-point numbers.
HalfUnit == 2
\* Sample values of the aggregator's inputs range over -1 .. MaxY.
MaxY == 1
\* Core counts range over 0 .. MaxCores.
MaxCores == 2
\* Refresh ticks after mount.
MaxTicks == 2
\* handleSubmit calls of one drawer.
MaxSubmits == 3

\* 100 percent per core (line 59 and line 92).
PercentPerCore == 100

Unit == 2 * HalfUnit

---------------------------------------------------------------------------
(* JavaScript values *)

Undefined == [t |-> "undefined"]
Null      == [t |-> "null"]
Num(n)    == [t |-> "number", v |-> n]
Str(s)    == [t |-> "string", s |-> s]
Obj(m)    == [t |-> "object", m |-> m]
Arr(s)    == [t |-> "array", s |-> s]
TypeError == [t |-> "throw", e |-> "TypeError"]

\* !v for the values used here: undefined, null, 0 and "" are falsy.
Falsy(v) ==
    \/ v.t \in {"undefined", "null"}
    \/ v.t = "number" /\ v.v = 0
    \/ v.t = "string" /\ v.s = ""

\* a || b
OrElse(a, b) == IF Falsy(a) THEN b ELSE a

---------------------------------------------------------------------------
(* Utilities of LongviewGauge *)

\* Faulty variant of pathOr0: reads the last sample of the series.
pathOr0_Last(entry, cpu) ==
    LET series == cpu.m[entry] IN
    IF series.t # "array" \/ Len(series.s) = 0 THEN 0
    ELSE LET pt == series.s[Len(series.s)] IN
         IF pt.t # "object" THEN 0
         ELSE IF "y" \notin DOMAIN pt.m THEN 0
         ELSE IF pt.m["y"].t # "number" THEN 0
         ELSE pt.m["y"].v

\* pathOr(0, [entry, 0, 'y'], cpu): the walk stops with undefined at a
\* null or undefined link, and a null or undefined result gives the default.
pathOr0(entry, cpu) ==
    LET series == cpu.m[entry] IN
    IF series.t # "array" \/ Len(series.s) = 0 THEN 0
    ELSE LET pt == series.s[1] IN
         IF pt.t # "object" THEN 0
         ELSE IF "y" \notin DOMAIN pt.m THEN 0
         ELSE IF pt.m["y"].t # "number" THEN 0
         ELSE pt.m["y"].v

\* Object.keys(v) throws a TypeError for null and undefined.
ObjectKeysThrows(v) == v.t \in {"undefined", "null"}

\* Object.keys(cpu).forEach(entry => sum += pathOr(...)), lines 83-86.
RECURSIVE SumEntries(_, _)
SumEntries(cpu, keys) ==
    IF keys = {} THEN 0
    ELSE LET entry == CHOOSE k \in keys : TRUE IN
         pathOr0(entry, cpu) + SumEntries(cpu, keys \ {entry})

\* Object.keys(CPUData).forEach(key => ...), lines 81-87; the result is a
\* number, or the TypeError of Object.keys(cpu) for a null or undefined cpu.
RECURSIVE SumKeys(_, _)
SumKeys(CPUData, keys) ==
    IF keys = {} THEN Num(0)
    ELSE LET key  == CHOOSE k \in keys : TRUE
             cpu  == CPUData.m[key]
             rest == SumKeys(CPUData, keys \ {key})
         IN  IF ObjectKeysThrows(cpu) \/ rest.t = "throw" THEN TypeError
             ELSE Num(SumEntries(cpu, DOMAIN cpu.m) + rest.v)

\* sumCPUUsage, lines 79-89.  The default parameter {} replaces undefined
\* only; null is passed on to Object.keys.
sumCPUUsage(CPUData) ==
    LET data == IF CPUData = Undefined THEN Obj(<<>>) ELSE CPUData IN
    IF ObjectKeysThrows(data) THEN TypeError
    ELSE SumKeys(data, DOMAIN data.m)

\* ramda's clamp(min, max)(value), for min <= max.
clamp(min, max, value) ==
    IF value < min THEN min ELSE IF value > max THEN max ELSE value

\* Math.round of the fixed-point number n: floor(n / Unit + 1/2).
MathRound(n) == (2 * n + Unit) \div (2 * Unit)

\* Faulty variant of normalizeValue: Math.floor instead of Math.round.
MathFloor(n) == n \div Unit

normalizeValue_Floor(value, cores) ==
    MathFloor(clamp(0, PercentPerCore * cores * Unit, value))

\* normalizeValue, lines 91-95; value is fixed-point, the result an integer.
normalizeValue(value, cores) ==
    LET clamped == clamp(0, PercentPerCore * cores * Unit, value)
        rounded == MathRound(clamped)
    IN  rounded

\* innerText, lines 97-111; error is undefined or an APIError object.
APIError(reason) == Obj([k \in {"reason"} |-> Str(reason)])
LoadingText == "Loading..."

\* Faulty variant of innerText: the loading flag is consulted first.
innerText_LoadingFirst(value, isLoading, err) ==
    IF isLoading THEN Str(LoadingText)
    ELSE IF ~Falsy(err) THEN err.m["reason"]
    ELSE Str(ToString(value) \o "%")

innerText(value, isLoading, err) ==
    IF ~Falsy(err) THEN err.m["reason"]
    ELSE IF isLoading THEN Str(LoadingText)
    ELSE Str(ToString(value) \o "%")

---------------------------------------------------------------------------
(* LongviewGauge: state, effect, handlers *)

\* What requestStats can resolve with: data.SysInfo.cpu.cores (undefined
\* when the path is missing) and data.CPU.
OneSample(y) ==
    Obj([p \in {"cpu0"} |->
        Obj([e \in {"user"} |-> Arr(<<Obj([k \in {"y"} |-> Num(y)])>>)])])
GaugeTotals == {0, 101 * HalfUnit, (PercentPerCore + PercentPerCore \div 2) * Unit}
GaugeSnapshots ==
    {Undefined, Obj([p \in {"cpu0"} |-> Null])} \cup {OneSample(y) : y \in GaugeTotals}
GaugeCores == {Undefined} \cup {Num(c) : c \in 0..MaxCores}
GaugeData  == [cores : GaugeCores, CPU : GaugeSnapshots]

NoFetch == [outcome |-> "none"]
Idle    == pc = "idle"

\* useState initial values (lines 19-23) and the effect's run on mount.
GaugeInit ==
    /\ loading = TRUE
    /\ error = Undefined
    /\ usedCPU = Undefined
    /\ numCores = Undefined
    /\ lastUpdated = 0
    /\ requests = {[id |-> 0, usedCPU |-> Undefined]}
    /\ pc = "idle"
    /\ cur = NoFetch

\* The effect, lines 25-26 and 52: a change of lastUpdated issues a fetch;
\* the handlers close over the usedCPU of the render that ran the effect.
\* Nothing is cancelled and no state is set.
\* (Tick_ResetLoading: a variant that calls setLoading(true) when there is
\* no usage value.)
Tick_ResetLoading ==
    /\ Idle
    /\ lastUpdated < MaxTicks
    /\ lastUpdated' = lastUpdated + 1
    /\ requests' = requests \cup {[id |-> lastUpdated + 1, usedCPU |-> usedCPU]}
    /\ loading' = IF Falsy(usedCPU) THEN TRUE ELSE loading
    /\ UNCHANGED <<error, usedCPU, numCores, pc, cur>>

Tick ==
    /\ Idle
    /\ lastUpdated < MaxTicks
    /\ lastUpdated' = lastUpdated + 1
    /\ requests' = requests \cup {[id |-> lastUpdated + 1, usedCPU |-> usedCPU]}
    /\ UNCHANGED <<loading, error, usedCPU, numCores, pc, cur>>

\* The promise of fetch r resolves with data: its .then callback starts.
Resolve(r, data) ==
    /\ Idle
    /\ r \in requests
    /\ requests' = requests \ {r}
    /\ cur' = [outcome |-> "resolved", req |-> r, data |-> data, before |-> [usedCPU |-> usedCPU, numCores |-> numCores]]
    /\ pc' = "then"
    /\ UNCHANGED <<loading, error, usedCPU, numCores, lastUpdated>>

\* The promise of fetch r rejects: its .catch callback starts.
Reject(r) ==
    /\ Idle
    /\ r \in requests
    /\ requests' = requests \ {r}
    /\ cur' = [outcome |-> "rejected", req |-> r, before |-> [usedCPU |-> usedCPU, numCores |-> numCores]]
    /\ pc' = "catch"
    /\ UNCHANGED <<loading, error, usedCPU, numCores, lastUpdated>>

\* line 28
ThenSetLoading ==
    /\ pc = "then"
    /\ loading' = FALSE
    /\ pc' = "then_setError"
    /\ UNCHANGED <<error, usedCPU, numCores, lastUpdated, requests, cur>>

\* lines 29-36: setError(undefined), then return when !cores.
\* (ThenSetError_NoReturn: a variant that resets numCores and usedCPU when
\* the core count is missing.)
ThenSetError_NoReturn ==
    /\ pc = "then_setError"
    /\ error' = Undefined
    /\ IF Falsy(cur.data.cores)
       THEN pc' = "idle" /\ numCores' = Undefined /\ usedCPU' = Undefined
       ELSE pc' = "then_setNumCores" /\ UNCHANGED <<numCores, usedCPU>>
    /\ UNCHANGED <<loading, lastUpdated, requests, cur>>

ThenSetError ==
    /\ pc = "then_setError"
    /\ error' = Undefined
    /\ pc' = IF Falsy(cur.data.cores) THEN "idle" ELSE "then_setNumCores"
    /\ UNCHANGED <<loading, usedCPU, numCores, lastUpdated, requests, cur>>

\* lines 38-40: setNumCores(cores), then sumCPUUsage(data.CPU), whose
\* TypeError rejects the promise that .catch is attached to.
ThenSetNumCores ==
    /\ pc = "then_setNumCores"
    /\ numCores' = cur.data.cores
    /\ pc' = IF sumCPUUsage(cur.data.CPU).t = "throw" THEN "catch"
             ELSE "then_setUsedCPU"
    /\ UNCHANGED <<loading, error, usedCPU, lastUpdated, requests, cur>>

\* A fetch issued after fetch id has settled already (ids are the values of
\* lastUpdated; a fetch is in flight until its promise settles).
NewerSettled(id) ==
    \E j \in (id + 1)..lastUpdated : ~(\E q \in requests : q.id = j)

\* lines 40-42
\* (ThenSetUsedCPU_DropStale: a variant that ignores the result of a fetch
\* when a later-issued fetch has settled already.)
ThenSetUsedCPU_DropStale ==
    /\ pc = "then_setUsedCPU"
    /\ usedCPU' = IF NewerSettled(cur.req.id)
                  THEN usedCPU
                  ELSE Num(normalizeValue(sumCPUUsage(cur.data.CPU).v, cur.data.cores.v))
    /\ pc' = "idle"
    /\ UNCHANGED <<loading, error, numCores, lastUpdated, requests, cur>>

ThenSetUsedCPU ==
    /\ pc = "then_setUsedCPU"
    /\ usedCPU' = Num(normalizeValue(sumCPUUsage(cur.data.CPU).v, cur.data.cores.v))
    /\ pc' = "idle"
    /\ UNCHANGED <<loading, error, numCores, lastUpdated, requests, cur>>

\* lines 44-48: the closure's usedCPU decides, not the current state.
Catch ==
    /\ pc = "catch"
    /\ IF Falsy(cur.req.usedCPU)
       THEN error' = APIError("Error") /\ pc' = "catch_setLoading"
       ELSE error' = error /\ pc' = "idle"
    /\ UNCHANGED <<loading, usedCPU, numCores, lastUpdated, requests, cur>>

\* line 49
CatchSetLoading ==
    /\ pc = "catch_setLoading"
    /\ loading' = FALSE
    /\ pc' = "idle"
    /\ UNCHANGED <<error, usedCPU, numCores, lastUpdated, requests, cur>>

\* What is rendered, lines 54-72.
GaugeMax        == IF numCores = Undefined THEN 1 ELSE PercentPerCore * numCores.v
GaugeValue      == IF usedCPU = Undefined THEN 0 ELSE usedCPU.v
GaugeInnerText  == innerText(OrElse(usedCPU, Num(0)).v, loading, error)
CoresLabelShown == Falsy(error) /\ ~loading
CoresLabelCount == OrElse(numCores, Num(0)).v

---------------------------------------------------------------------------
(* DiskDrawer: submitForm *)

\* The rejections of onSubmit: non-empty lists of API errors, each with a
\* reason and possibly a field.
GeneralError    == [reason |-> "boom"]
FieldError(f)   == [field |-> f, reason |-> "bad"]
APIErrors       == {GeneralError, FieldError("label"), FieldError("size")}
APIErrorLists   == {<<e>> : e \in APIErrors} \cup {<<e, f>> : e \in APIErrors, f \in APIErrors}
HasField(e)     == "field" \in DOMAIN e

\* handleFieldErrors(formik.setErrors, err): the errors object passed to
\* setErrors, or undefined when no error of the list names a field.
handleFieldErrors(err) ==
    LET fields == {err[i].field : i \in {j \in DOMAIN err : HasField(err[j])}} IN
    IF fields = {} THEN Undefined
    ELSE Obj([f \in fields |-> Str("bad")])

\* handleGeneralErrors(mapErrorToStatus, err, default): the status set, or
\* undefined when every error of the list names a field.
RECURSIVE JoinReasons(_)
JoinReasons(list) ==
    IF list = <<>> THEN ""
    ELSE IF Len(list) = 1 THEN Head(list).reason
    ELSE Head(list).reason \o "," \o JoinReasons(Tail(list))

handleGeneralErrors(err) ==
    LET general == SelectSeq(err, LAMBDA e : ~HasField(e)) IN
    IF general = <<>> THEN Undefined
    ELSE Obj([k \in {"generalError"} |-> Str(JoinReasons(general))])

NoErrors   == Obj(<<>>)
NoCalls    == [onSubmit |-> 0, onClose |-> 0, resolved |-> 0, rejected |-> 0]

\* Formik's initial state; the drawer is mounted closed.
DrawerInit ==
    /\ status = Undefined
    /\ errors = NoErrors
    /\ isSubmitting = FALSE
    /\ open = FALSE
    /\ pending = {}
    /\ calls = NoCalls

\* The effect of lines 168-173: opening the drawer resets the form.
OpenDrawer ==
    /\ ~open
    /\ open' = TRUE
    /\ status' = Undefined
    /\ errors' = NoErrors
    /\ isSubmitting' = FALSE
    /\ UNCHANGED <<pending, calls>>

\* The parent closes the drawer (Cancel, or its onClose).
CloseDrawer ==
    /\ open
    /\ open' = FALSE
    /\ UNCHANGED <<status, errors, isSubmitting, pending, calls>>

\* Submit button, line 350: formik.handleSubmit() finds the values invalid,
\* records the schema's errors and does not call onSubmit.
HandleSubmitInvalid(f) ==
    /\ open
    /\ errors' = Obj([k \in {f} |-> Str("required")])
    /\ isSubmitting' = FALSE
    /\ UNCHANGED <<status, open, pending, calls>>

\* Submit button with valid values: formik sets isSubmitting and calls
\* onSubmit (line 165), that is submitForm, lines 175-180.
HandleSubmit ==
    /\ open
    /\ calls.onSubmit < MaxSubmits
    /\ isSubmitting' = TRUE
    /\ status' = Undefined
    /\ errors' = NoErrors
    /\ pending' = pending \cup {calls.onSubmit + 1}
    /\ calls' = [calls EXCEPT !.onSubmit = @ + 1]
    /\ UNCHANGED open

\* .then of onSubmit, lines 181-184.
SubmitResolved(p) ==
    /\ p \in pending
    /\ pending' = pending \ {p}
    /\ isSubmitting' = FALSE
    /\ calls' = [calls EXCEPT !.onClose = @ + 1, !.resolved = @ + 1]
    /\ UNCHANGED <<open, status, errors>>

\* .catch of onSubmit, lines 185-196.
\* (SubmitRejected_KeepSubmitting: a variant without setSubmitting(false).)
SubmitRejected_KeepSubmitting(p, err) ==
    /\ p \in pending
    /\ pending' = pending \ {p}
    /\ errors' = OrElse(handleFieldErrors(err), errors)
    /\ status' = OrElse(handleGeneralErrors(err), status)
    /\ calls' = [calls EXCEPT !.rejected = @ + 1]
    /\ UNCHANGED <<isSubmitting, open>>

SubmitRejected(p, err) ==
    /\ p \in pending
    /\ pending' = pending \ {p}
    /\ isSubmitting' = FALSE
    /\ errors' = OrElse(handleFieldErrors(err), errors)
    /\ status' = OrElse(handleGeneralErrors(err), status)
    /\ calls' = [calls EXCEPT !.rejected = @ + 1]
    /\ UNCHANGED open

---------------------------------------------------------------------------
(* Calls of the utilities *)

NotCalled == [t |-> "pending"]

\* The inputs of sumCPUUsage: absent, null, or a mapping of up to two
\* processors to null, undefined or a mapping of up to two series.
YVals  == (-1)..MaxY
Point(v) == Obj([k \in {"y"} |-> Num(v)])
Points == {Obj(<<>>), Obj([k \in {"y"} |-> Null])} \cup {Point(v) : v \in YVals}
SeriesVals ==
    {Undefined, Null, Arr(<<>>)}
        \cup {Arr(<<p>>) : p \in Points}
        \cup {Arr(<<p, Point(MaxY)>>) : p \in Points}
MapsTo(keys, vals) == UNION {[ks -> vals] : ks \in SUBSET keys}
CPUVals   == {Undefined, Null} \cup {Obj(m) : m \in MapsTo({"user", "system"}, SeriesVals)}
Snapshots == {Undefined, Null} \cup {Obj(m) : m \in MapsTo({"cpu0", "cpu1"}, CPUVals)}

\* The inputs of normalizeValue: the multiples of 1/Unit within
\* PercentPerCore of the largest clamp range, and the core counts.
MaxRaw  == PercentPerCore * (MaxCores + 1) * Unit
RawVals == (-MaxRaw)..MaxRaw

\* The inputs of innerText.
TextVals   == (-1)..(PercentPerCore * MaxCores)
TextErrors == {Undefined, APIError("Error"), APIError("boom"), APIError("")}

CallSum ==
    /\ ret = NotCalled
    /\ ret' = sumCPUUsage(args.CPUData)
    /\ UNCHANGED args

CallNormalize ==
    /\ ret = NotCalled
    /\ ret' = Num(normalizeValue(args.value, args.numCores))
    /\ UNCHANGED args

CallInnerText ==
    /\ ret = NotCalled
    /\ ret' = innerText(args.value, args.loading, args.error)
    /\ UNCHANGED args

---------------------------------------------------------------------------
(* Specifications *)

UtilIdle   == args = Undefined /\ ret = Undefined
GaugeIdle  ==
    /\ loading = FALSE /\ error = Undefined /\ usedCPU = Undefined
    /\ numCores = Undefined /\ lastUpdated = 0 /\ requests = {}
    /\ pc = "unmounted" /\ cur = NoFetch
DrawerIdle ==
    /\ status = Undefined /\ errors = NoErrors /\ isSubmitting = FALSE
    /\ open = FALSE /\ pending = {} /\ calls = Undefined

\* LongviewGauge
InitGauge == GaugeInit /\ UtilIdle /\ DrawerIdle

NextGauge ==
    \/ Tick /\ UNCHANGED <<utilVars, drawerVars>>
    \/ (\E r \in requests, data \in GaugeData : Resolve(r, data))
          /\ UNCHANGED <<utilVars, drawerVars>>
    \/ (\E r \in requests : Reject(r)) /\ UNCHANGED <<utilVars, drawerVars>>
    \/ ThenSetLoading /\ UNCHANGED <<utilVars, drawerVars>>
    \/ ThenSetError /\ UNCHANGED <<utilVars, drawerVars>>
    \/ ThenSetNumCores /\ UNCHANGED <<utilVars, drawerVars>>
    \/ ThenSetUsedCPU /\ UNCHANGED <<utilVars, drawerVars>>
    \/ Catch /\ UNCHANGED <<utilVars, drawerVars>>
    \/ CatchSetLoading /\ UNCHANGED <<utilVars, drawerVars>>

SpecGauge == InitGauge /\ [][NextGauge]_vars

\* DiskDrawer
InitDrawer == DrawerInit /\ UtilIdle /\ GaugeIdle

NextDrawer ==
    \/ OpenDrawer /\ UNCHANGED <<utilVars, gaugeVars>>
    \/ CloseDrawer /\ UNCHANGED <<utilVars, gaugeVars>>
    \/ (\E f \in {"label", "size"} : HandleSubmitInvalid(f))
          /\ UNCHANGED <<utilVars, gaugeVars>>
    \/ HandleSubmit /\ UNCHANGED <<utilVars, gaugeVars>>
    \/ (\E p \in pending : SubmitResolved(p)) /\ UNCHANGED <<utilVars, gaugeVars>>
    \/ (\E p \in pending, err \in APIErrorLists : SubmitRejected(p, err))
          /\ UNCHANGED <<utilVars, gaugeVars>>

SpecDrawer == InitDrawer /\ [][NextDrawer]_vars

\* sumCPUUsage on every input of Snapshots
InitSum ==
    /\ args \in [CPUData : Snapshots]
    /\ ret = NotCalled
    /\ GaugeIdle /\ DrawerIdle

NextSum == CallSum /\ UNCHANGED <<gaugeVars, drawerVars>>

SpecSum == InitSum /\ [][NextSum]_vars

\* normalizeValue on every total of RawVals and every core count
InitNormalize ==
    /\ args \in [value : RawVals, numCores : 0..MaxCores]
    /\ ret = NotCalled
    /\ GaugeIdle /\ DrawerIdle

NextNormalize == CallNormalize /\ UNCHANGED <<gaugeVars, drawerVars>>

SpecNormalize == InitNormalize /\ [][NextNormalize]_vars

\* innerText on every combination of value, loading flag and error
InitInnerText ==
    /\ args \in [value : TextVals, loading : BOOLEAN, error : TextErrors]
    /\ ret = NotCalled
    /\ GaugeIdle /\ DrawerIdle

NextInnerText == CallInnerText /\ UNCHANGED <<gaugeVars, drawerVars>>

SpecInnerText == InitInnerText /\ [][NextInnerText]_vars

---------------------------------------------------------------------------
(* Properties *)

Called == ret # NotCalled

\* The value of the sample at index 0 of a series; 0 when the series is
\* absent or empty, or when that sample has no numeric value.
FirstSampleValue(series) ==
    IF series.t # "array" THEN 0
    ELSE IF series.s = <<>> THEN 0
    ELSE IF "y" \notin DOMAIN Head(series.s).m THEN 0
    ELSE IF Head(series.s).m.y.t # "number" THEN 0
    ELSE Head(series.s).m.y.v

RECURSIVE TotalOver(_, _)
TotalOver(snapshot, pairs) ==
    IF pairs = {} THEN 0
    ELSE LET pe == CHOOSE x \in pairs : TRUE IN
         FirstSampleValue(snapshot.m[pe[1]].m[pe[2]])
             + TotalOver(snapshot, pairs \ {pe})

\* Every (processor, series) pair of a snapshot.
AllSeries(snapshot) ==
    UNION {{<<p, e>> : e \in DOMAIN snapshot.m[p].m} : p \in DOMAIN snapshot.m}

\* A mapping of processors to mappings of series.
IsMapping(snapshot) ==
    /\ snapshot.t = "object"
    /\ \A p \in DOMAIN snapshot.m : snapshot.m[p].t = "object"

\* C1: for an absent snapshot sumCPUUsage returns 0, and for every mapping
\* of processors to mappings of series it returns the sum, over every
\* processor and series, of the value of the sample at index 0, a series
\* without such a value contributing 0.
C1_SumOfFirstSamples ==
    Called =>
        /\ args.CPUData = Undefined => ret = Num(0)
        /\ IsMapping(args.CPUData) =>
              ret = Num(TotalOver(args.CPUData, AllSeries(args.CPUData)))

\* Two processors, one of them with a series of two different samples, and
\* a total that is not 0.
C1_Witness ==
    /\ Called
    /\ IsMapping(args.CPUData)
    /\ DOMAIN args.CPUData.m = {"cpu0", "cpu1"}
    /\ \E e \in DOMAIN args.CPUData.m["cpu0"].m :
          args.CPUData.m["cpu0"].m[e] = Arr(<<Point(-1), Point(MaxY)>>)
    /\ ret.t = "number" /\ ret.v > 0

\* C6: sumCPUUsage never raises: for every input shape it returns a number.
C6_NeverRaises == Called => ret.t = "number"

\* t clamped into [0, 100 * c], as a fixed-point number.
ClampedTotal(t, c) ==
    IF t < 0 THEN 0
    ELSE IF t > PercentPerCore * c * Unit THEN PercentPerCore * c * Unit
    ELSE t

\* r is x rounded half-up: r - 1/2 <= x < r + 1/2.
IsRoundHalfUp(r, x) ==
    /\ 2 * Unit * r - Unit <= 2 * x
    /\ 2 * x < 2 * Unit * r + Unit

\* C2: normalizeValue(t, c) is an integer r with 0 <= r <= 100 * c, equal to
\* t clamped into [0, 100 * c] and rounded half-up; normalizeValue(x, 0) = 0,
\* normalizeValue(-5, 2) = 0, normalizeValue(1000, 2) = 200 and
\* normalizeValue(50.5, 1) = 51.
C2_ClampedAndRoundedHalfUp ==
    Called =>
        /\ ret.v \in 0..(PercentPerCore * args.numCores)
        /\ IsRoundHalfUp(ret.v, ClampedTotal(args.value, args.numCores))
        /\ args.numCores = 0 => ret.v = 0
        /\ (args.value = (-5) * Unit /\ args.numCores = 2) => ret.v = 0
        /\ (args.value = 101 * HalfUnit /\ args.numCores = 1) => ret.v = 51
        /\ normalizeValue(1000 * Unit, 2) = 200

\* normalizeValue(50.5, 1) has returned 51.
C2_Witness ==
    /\ Called
    /\ args.value = 101 * HalfUnit
    /\ args.numCores = 1
    /\ ret = Num(51)

\* The decimal numeral of an integer.
Digit(d) == SubSeq("0123456789", d + 1, d + 1)
RECURSIVE Decimal(_)
Decimal(n) ==
    IF n < 0 THEN "-" \o Decimal(-n)
    ELSE IF n < 10 THEN Digit(n)
    ELSE Decimal(n \div 10) \o Digit(n % 10)

\* C3: innerText returns the error's reason whenever an error is present,
\* else 'Loading...' when loading, else the value followed by '%'.
C3_TextPriority ==
    Called =>
        /\ args.error # Undefined => ret = args.error.m.reason
        /\ (args.error = Undefined /\ args.loading) => ret = Str("Loading...")
        /\ (args.error = Undefined /\ ~args.loading) =>
              ret = Str(Decimal(args.value) \o "%")

\* An error together with the loading flag: the reason is returned.
C3_Witness ==
    /\ Called
    /\ args.error = APIError("boom")
    /\ args.loading
    /\ ret = Str("boom")

\* C4: in every state the gauge renders, the states between the state
\* updates of one handler included, 0 <= value <= max.
C4_ValueWithinCapacity == 0 <= GaugeValue /\ GaugeValue <= GaugeMax

\* C5: a fetch failure handled after a usage value has been obtained is
\* swallowed: error, loading, usedCPU and numCores stay as they are.
C5_FailureSwallowed ==
    [][(pc = "catch" /\ cur.outcome = "rejected" /\ usedCPU # Undefined)
          => UNCHANGED <<error, loading, usedCPU, numCores>>]_vars

\* The success handler of a fetch without a core count has finished.
NoCoresHandled ==
    /\ Idle
    /\ cur.outcome = "resolved"
    /\ Falsy(cur.data.cores)

C8_TickResetsLoading ==
    [][(lastUpdated' # lastUpdated /\ usedCPU = Undefined) => loading']_vars

\* C8, amended: the gauge is Loading from mount until the first fetch has
\* settled, and Ready or Error (loading false) after every handler; a tick
\* changes none of loading, error, usedCPU and numCores, and loading never
\* returns to true.
C8_LoadingOnlyUntilFirstSettle ==
    /\ [](cur = NoFetch => loading)
    /\ []((Idle /\ cur # NoFetch) => ~loading)
    /\ [][/\ lastUpdated' # lastUpdated =>
                UNCHANGED <<loading, error, usedCPU, numCores>>
          /\ ~loading => ~loading']_vars

\* A tick has issued a fetch while the previous cycle ended in Error
\* without a usage value: the gauge is not Loading.
C8_Witness ==
    /\ Idle
    /\ lastUpdated > 0
    /\ \E r \in requests : r.id = lastUpdated
    /\ usedCPU = Undefined
    /\ error # Undefined
    /\ ~loading

\* What the handlers of the fetch in cur leave behind.
OutcomeDisplayed ==
    /\ (cur.outcome = "resolved" /\ ~Falsy(cur.data.cores)
            /\ sumCPUUsage(cur.data.CPU).t = "number") =>
          /\ usedCPU = Num(normalizeValue(sumCPUUsage(cur.data.CPU).v,
                                          cur.data.cores.v))
          /\ numCores = cur.data.cores
          /\ error = Undefined
          /\ ~loading
    /\ (cur.outcome = "rejected" /\ Falsy(cur.req.usedCPU)) =>
          /\ error = APIError("Error")
          /\ ~loading

\* C9: a tick adds a fetch and removes none of those in flight, and the
\* outcome of whichever fetch settles last is what the gauge displays, also
\* when a later-issued fetch has settled before it.
C9_LateResolutionOverwrites ==
    /\ [][lastUpdated' # lastUpdated =>
             /\ requests \subseteq requests'
             /\ Cardinality(requests') = Cardinality(requests) + 1]_vars
    /\ [](Idle /\ cur # NoFetch => OutcomeDisplayed)

\* Fetch 0 resolves after fetch 1 has set a usage value, and replaces it.
C9_Witness ==
    /\ Idle
    /\ lastUpdated = 1
    /\ requests = {}
    /\ cur.outcome = "resolved"
    /\ cur.req.id = 0
    /\ NewerSettled(cur.req.id)
    /\ cur.before.usedCPU # Undefined
    /\ usedCPU # cur.before.usedCPU
    /\ numCores # cur.before.numCores

\* C10: a submit clears status and errors and calls onSubmit once; onClose
\* is called once per resolved onSubmit and never for a rejected one; a
\* rejection records a status or field errors; both outcomes reset
\* isSubmitting, which is false whenever no onSubmit is pending.
C10_SubmitProtocol ==
    /\ [][/\ calls'.onSubmit # calls.onSubmit =>
                /\ calls'.onSubmit = calls.onSubmit + 1
                /\ status' = Undefined
                /\ errors' = NoErrors
                /\ calls'.onClose = calls.onClose
          /\ calls'.onClose # calls.onClose =>
                /\ calls'.onClose = calls.onClose + 1
                /\ calls'.resolved = calls.resolved + 1
                /\ ~isSubmitting'
          /\ calls'.rejected # calls.rejected =>
                /\ calls'.onClose = calls.onClose
                /\ ~isSubmitting'
                /\ status' # Undefined \/ errors' # NoErrors]_vars
    /\ [](calls.onClose = calls.resolved)
    /\ [](pending = {} => ~isSubmitting)

\* One onSubmit resolved and one rejected, none pending.
C10_Witness ==
    /\ calls.resolved > 0
    /\ calls.rejected > 0
    /\ calls.onClose = 1
    /\ pending = {}
    /\ status # Undefined
    /\ ~isSubmitting

===========================================================================
